---- MODULE Spec2Model ----
(***************************************************************************)
(* Model of src/src/lib/dashboard-forecast-data.ts: the seeded generator   *)
(* mulberry32, the range table ARGO_RANGES, getHorizonInDays,              *)
(* generateSingleForecast, generateOverallNarrative and                    *)
(* generateAllForecasts.                                                   *)
(*                                                                         *)
(* Number representation.  32-bit integers of the generator are pairs      *)
(* <<hi, lo>> of 16-bit limbs and all generator arithmetic wraps modulo    *)
(* 2^32 as in the source.  Physical values (the doubles of the source) are *)
(* integers in units of 10^-6 of the variable's unit; fractions in [0,1]   *)
(* are integers in units of 10^-4; a draw of random() keeps the upper 16   *)
(* bits of the 32-bit output; Math.sin is Bhaskara's rational              *)
(* approximation in units of 10^-3.  A double that may be non-finite is a  *)
(* pair <<n, d>>: <<n, 1>> is the number n, <<0, 0>> is NaN, <<1, 0>> is   *)
(* Infinity and <<-1, 0>> is -Infinity; the quotient of two numbers is     *)
(* kept exactly, as <<numerator, denominator>>.                            *)
(***************************************************************************)
EXTENDS Integers, Sequences, FiniteSets, TLC

\* ------------------------------------------------------------- arithmetic

Abs(x) == IF x < 0 THEN -x ELSE x

\* floor(x * y / d) for d > 0 without leaving 32 bits, |y| and d moderate
MulDiv(x, y, d) == (x \div d) * y + ((x % d) * y) \div d

NaN == <<0, 0>>
PosInf == <<1, 0>>
NegInf == <<-1, 0>>
Num(n) == <<n, 1>>

IsFinite(x) == x[2] = 1

\* the < and <= of doubles (numbers n as <<n, 1>>): false as soon as an
\* operand is NaN
Lt(x, y) ==
    IF x = NaN \/ y = NaN THEN FALSE
    ELSE IF x = y THEN FALSE
    ELSE IF x = NegInf \/ y = PosInf THEN TRUE
    ELSE IF x = PosInf \/ y = NegInf THEN FALSE
    ELSE x[1] < y[1]

Leq(x, y) ==
    IF x = NaN \/ y = NaN THEN FALSE
    ELSE x = y \/ Lt(x, y)

\* the + of doubles
Add(x, y) ==
    IF x = NaN \/ y = NaN \/ (x = PosInf /\ y = NegInf) \/ (x = NegInf /\ y = PosInf)
    THEN NaN
    ELSE IF ~IsFinite(x) THEN x
    ELSE IF ~IsFinite(y) THEN y
    ELSE Num(x[1] + y[1])

\* Math.max and Math.min of two finite numbers
MathMax(x, y) == IF x >= y THEN x ELSE y
MathMin(x, y) == IF x <= y THEN x ELSE y

\* -------------------------------------------------- 32-bit words, mulberry32

W16 == 65536

XorBit[x \in 0..15, y \in 0..15] ==
    LET b(v, k) == (v \div k) % 2
        x1(k) == IF b(x, k) = b(y, k) THEN 0 ELSE k
    IN  x1(1) + x1(2) + x1(4) + x1(8)

Xor16(x, y) ==
    XorBit[x % 16, y % 16]
    + 16 * XorBit[(x \div 16) % 16, (y \div 16) % 16]
    + 256 * XorBit[(x \div 256) % 16, (y \div 256) % 16]
    + 4096 * XorBit[x \div 4096, y \div 4096]

Xor32(x, y) == <<Xor16(x[1], y[1]), Xor16(x[2], y[2])>>

\* x >>> 15, x >>> 7, x >>> 14
Shr15(x) == <<x[1] \div 32768, (x[1] * 2 + x[2] \div 32768) % W16>>
Shr7(x) == <<x[1] \div 128, (x[1] % 128) * 512 + x[2] \div 128>>
Shr14(x) == <<x[1] \div 16384, (x[1] % 16384) * 4 + x[2] \div 16384>>

\* 1 | x and 61 | x
Or1(x) == <<x[1], x[2] + (1 - (x[2] % 2))>>
Or61(x) == <<x[1], x[2] - (x[2] % 64) + 61 + 2 * ((x[2] \div 2) % 2)>>

\* x + y modulo 2^32
Add32(x, y) ==
    LET lo == x[2] + y[2]
    IN  <<(x[1] + y[1] + lo \div W16) % W16, lo % W16>>

\* the 32-bit product of two 16-bit limbs
Mul16(x, y) ==
    LET x0 == x % 256
        x1 == x \div 256
        y0 == y % 256
        y1 == y \div 256
        cross == x0 * y1 + x1 * y0
        low == x0 * y0 + (cross % 256) * 256
    IN  <<(low \div W16 + cross \div 256 + x1 * y1) % W16, low % W16>>

\* Math.imul
Imul(x, y) ==
    LET ll == Mul16(x[2], y[2])
    IN  <<(ll[1] + Mul16(x[2], y[1])[2] + Mul16(x[1], y[2])[2]) % W16, ll[2]>>

\* 0x6D2B79F5
Increment == <<27947, 31221>>

\* the captured a of the generator made last, as a pair of limbs
VARIABLE a

\* a generator shared by the calls: the state the last call left, not the seed
SharedGenerator(seed) == a

\* mulberry32(a): the generator's state right after construction (a | 0)
mulberry32(seed) == <<(seed \div W16) % W16, seed % W16>>

\* the state of the generator after one call of random()
Advance(g) == Add32(g, Increment)

\* the state of the generator after n calls of random(): each call adds
\* 0x6D2B79F5 modulo 2^32
AdvanceBy(g, n) == Add32(g, Imul(Increment, <<n \div W16, n % W16>>))

\* the 32-bit word random() returns from the advanced state
Scramble(g) ==
    LET t1 == Imul(Xor32(g, Shr15(g)), Or1(g))
        t2 == Xor32(Add32(t1, Imul(Xor32(t1, Shr7(t1)), Or61(t1))), t1)
    IN  Xor32(t2, Shr14(t2))

\* random() in units of 10^-4, from the upper 16 bits of the word
Random(g) == (Scramble(Advance(g))[1] * 10000) \div W16

\* ------------------------------------------------------------ range table

\* ARGO_RANGES, in units of 10^-6
ARGO_RANGES ==
    [ temperature |-> <<26510000, 29270000>>,
      salinity |-> <<35280000, 35700000>>,
      ph |-> <<7929700, 8035600>>,
      oxygen |-> <<5450800, 6114900>>,
      chlorophyll |-> <<945990, 1271930>>,
      nitrate |-> <<1639150, 2080970>>,
      bbp700 |-> <<3708, 24895>>,
      cdom |-> <<253370, 316730>>,
      downwelling_par |-> <<168580000, 226570000>> ]

ForecastVariable == DOMAIN ARGO_RANGES

\* ------------------------------------------------------------ strings

\* A string is a sequence of one-character strings.
DecimalDigits == <<"0", "1", "2", "3", "4", "5", "6", "7", "8", "9">>
HexLower == <<"a", "b", "c", "d", "e", "f">>
HexUpper == <<"A", "B", "C", "D", "E", "F">>
WhiteSpace == {" ", "\t", "\n"}

IndexIn(c, seq) ==
    IF \E k \in 1..Len(seq) : seq[k] = c
    THEN CHOOSE k \in 1..Len(seq) : seq[k] = c
    ELSE 0

\* the value of character c as a digit of the radix, -1 if it is none
DigitValue(c, radix) ==
    LET d == IndexIn(c, DecimalDigits)
        l == IndexIn(c, HexLower)
        u == IndexIn(c, HexUpper)
    IN  IF d > 0 THEN d - 1
        ELSE IF radix = 16 /\ l > 0 THEN 9 + l
        ELSE IF radix = 16 /\ u > 0 THEN 9 + u
        ELSE -1

\* String(n) of a number, as template literals format it
RECURSIVE NatString(_)
NatString(n) ==
    IF n < 10 THEN <<DecimalDigits[n + 1]>>
    ELSE NatString(n \div 10) \o <<DecimalDigits[(n % 10) + 1]>>

NumberString(n) == IF n < 0 THEN <<"-">> \o NatString(-n) ELSE NatString(n)

\* horizon.endsWith('d')
EndsWith(str, c) == Len(str) > 0 /\ str[Len(str)] = c

\* horizon.slice(0, -1)
SliceDropLast(str) == IF Len(str) = 0 THEN str ELSE SubSeq(str, 1, Len(str) - 1)

\* horizon.includes(sub)
Includes(str, sub) ==
    \E k \in 1..(Len(str) - Len(sub) + 1) : SubSeq(str, k, k + Len(sub) - 1) = sub

RECURSIVE SkipWhiteSpace(_)
SkipWhiteSpace(str) ==
    IF Len(str) > 0 /\ Head(str) \in WhiteSpace THEN SkipWhiteSpace(Tail(str)) ELSE str

\* the digits of str read from the left in the radix: <<value, digits read>>
RECURSIVE ReadDigits(_, _, _, _)
ReadDigits(str, radix, acc, count) ==
    IF Len(str) > 0 /\ DigitValue(Head(str), radix) >= 0
    THEN ReadDigits(Tail(str), radix, acc * radix + DigitValue(Head(str), radix), count + 1)
    ELSE <<acc, count>>

\* parseInt(str) with no radix argument
ParseInt(str) ==
    LET s1 == SkipWhiteSpace(str)
        negative == Len(s1) > 0 /\ Head(s1) = "-"
        s2 == IF Len(s1) > 0 /\ Head(s1) \in {"-", "+"} THEN Tail(s1) ELSE s1
        hex == Len(s2) >= 2 /\ s2[1] = "0" /\ s2[2] \in {"x", "X"}
        s3 == IF hex THEN Tail(Tail(s2)) ELSE s2
        read == ReadDigits(s3, IF hex THEN 16 ELSE 10, 0, 0)
    IN  IF read[2] = 0 THEN NaN
        ELSE IF negative THEN Num(-read[1])
        ELSE Num(read[1])

getHorizonInDays(horizon) ==
    IF EndsWith(horizon, "d") THEN ParseInt(SliceDropLast(horizon))
    ELSE IF Includes(horizon, <<"m", "o", "n", "t", "h">>) THEN Num(30)
    ELSE Num(30)

\* ------------------------------------------------------------ Math.sin

\* Math.sin(p / q * Math.PI * 2) in units of 10^-3, p >= 0, by Bhaskara's
\* formula 16 w / (5 q^2 - 4 w) with w = P (q - P) on each half turn
Sin(p, q) ==
    LET P == (2 * p) % (2 * q)
        H == IF P < q THEN P ELSE P - q
        w == H * (q - H)
        v == (16000 * w) \div (5 * q * q - 4 * w)
    IN  IF P < q THEN v ELSE -v

\* Math.round of the fraction num / den, den > 0
MathRound(num, den) == (2 * num + den) \div (2 * den)

\* ------------------------------------------------ generateSingleForecast

Min(variable) == ARGO_RANGES[variable][1]
Max(variable) == ARGO_RANGES[variable][2]
Range(variable) == Max(variable) - Min(variable)

\* a clamp that lost its Math.min
ClampLowerOnly(min, max, value) == MathMax(min, value)

\* Math.max(min, Math.min(max, value))
Clamp(min, max, value) == MathMax(min, MathMin(max, value))

\* arr[index] is undefined outside 0 .. length - 1
Defined(arr, index) == index >= 0 /\ index < Len(arr)

\* an index below 0 counting from the end of the array, as at() does
ValueAtOrFromEnd(points, index, fallback) ==
    IF index >= 0 /\ index < Len(points) THEN points[index + 1].value
    ELSE IF index < 0 /\ Len(points) > 0 THEN points[(index % Len(points)) + 1].value
    ELSE fallback

\* points[index]?.value ?? fallback
ValueAtOr(points, index, fallback) ==
    IF Defined(points, index) THEN points[index + 1].value ELSE fallback

\* the value of historical point i, drawn with r = random()
HistoricalValue(variable, i, r) ==
    LET sinusoidal == ((Sin(i, 365) + Sin(i, 30)) * 10) \div 4
        noise == (r - 5000) \div 10
        normalizedValue == 5000 + (sinusoidal + noise) \div 2
        value == Min(variable) + MulDiv(Range(variable), normalizedValue, 10000)
    IN  Clamp(Min(variable), Max(variable), value)

\* the historical loop: pass i (from 0) draws once from the generator as the
\* i passes before it left it; the points and the generator after the loop
HistoricalLoop(variable, trainingDays, g) ==
    [ data |->
        [ k \in 1..trainingDays |->
            [ day |-> <<"D", "-">> \o NumberString(trainingDays - (k - 1)),
              value |-> HistoricalValue(variable, k - 1, Random(AdvanceBy(g, k - 1))),
              type |-> "historical" ] ],
      g |-> AdvanceBy(g, trainingDays) ]

\* historicalData[historicalData.length - 1]?.value ?? (min + range / 2)
InitialLastVal(variable, historicalData) ==
    ValueAtOr(historicalData, Len(historicalData) - 1,
              Min(variable) + Range(variable) \div 2)

\* trend, drawn once with r = random() when trainingDays > 30
Trend(variable, r) == MulDiv(Range(variable), r - 5000, 10000) \div 100

\* the index the seasonal-naive branch reads at forecast step i
SeasonalIndex(length, i) == length - (30 - (i % 30))

\* the indices of historicalData forecast step i reads
SeasonalReads(trainingDays, length, i) ==
    IF trainingDays <= 20 THEN <<SeasonalIndex(length, i)>> ELSE <<>>

\* seasonalVal at forecast step i
SeasonalVal(variable, trainingDays, i, historicalData, lastVal) ==
    IF trainingDays <= 20
    THEN ValueAtOr(historicalData, SeasonalIndex(Len(historicalData), i), lastVal)
         - lastVal
    ELSE LET seasonalAmplitude == IF trainingDays > 30 THEN trainingDays ELSE 0
             \* seasonalAmplitude is in units of 1/200: (trainingDays / 100) * 0.5
         IN  MulDiv(MulDiv(Range(variable), Sin(trainingDays + i, 365), 1000) \div 10,
                    seasonalAmplitude, 200)

\* (random() - 0.5) * range * 0.2 * (1 - trainingDays / 120)
UncertaintyNoise(variable, trainingDays, r) ==
    MulDiv(MulDiv(Range(variable), r - 5000, 10000) \div 5, 120 - trainingDays, 120)

\* range * 0.15 * (1 - trainingDays / 120)
ConfidenceRange(variable, trainingDays) ==
    MulDiv(MulDiv(Range(variable), 15, 100), 120 - trainingDays, 120)

\* one pass of the forecast loop body: the locals of step i
ForecastStep(variable, trainingDays, i, historicalData, lastVal, trend, r) ==
    LET min == Min(variable)
        max == Max(variable)
        seasonalVal == SeasonalVal(variable, trainingDays, i, historicalData, lastVal)
        uncertaintyNoise == UncertaintyNoise(variable, trainingDays, r)
        nextVal == Clamp(min, max, lastVal + seasonalVal + trend + uncertaintyNoise)
        confidenceRange == ConfidenceRange(variable, trainingDays)
    IN  [ i |-> i,
          lastVal |-> lastVal,
          reads |-> SeasonalReads(trainingDays, Len(historicalData), i),
          seasonalVal |-> seasonalVal,
          nextVal |-> nextVal,
          lower |-> MathMax(min, nextVal - confidenceRange),
          upper |-> MathMin(max, nextVal + confidenceRange) ]

\* the point pushed to forecastData at a step
ForecastPoint(step) ==
    [ day |-> <<"D", "+">> \o NumberString(step.i + 1),
      value |-> step.nextVal,
      type |-> "forecast",
      confidence |-> <<step.lower, step.upper>> ]

\* Math.min(...values) of numbers: Infinity when there is none
MinOf(values) ==
    IF Len(values) = 0 THEN PosInf
    ELSE Num(CHOOSE v \in {values[k] : k \in 1..Len(values)} :
                \A k \in 1..Len(values) : v <= values[k])

\* Math.max(...values) of numbers: -Infinity when there is none
MaxOf(values) ==
    IF Len(values) = 0 THEN NegInf
    ELSE Num(CHOOSE v \in {values[k] : k \in 1..Len(values)} :
                \A k \in 1..Len(values) : v >= values[k])

\* (forecastSlice[forecastSlice.length - 1] - forecastSlice[0]) / horizonDays,
\* the quotient kept as <<numerator, denominator>>; a subtraction of undefined
\* gives NaN
ForecastTrend(forecastSlice, horizonDays) ==
    IF ~Defined(forecastSlice, Len(forecastSlice) - 1) \/ ~Defined(forecastSlice, 0)
       \/ ~IsFinite(horizonDays)
    THEN NaN
    ELSE <<forecastSlice[Len(forecastSlice)] - forecastSlice[1], horizonDays[1]>>

\* trend > 0, Math.abs(trend * 100) > 0.01 and Math.abs(trend) < 0.001
TrendPositive(trend) == trend # NaN /\ trend[1] > 0
TrendNoticeable(trend) == trend # NaN /\ Abs(trend[1]) > 100 * trend[2]
TrendMinimal(trend) == trend # NaN /\ Abs(trend[1]) < 1000 * trend[2]

\* a confidence capped at 100 percent
ConfidenceCapped(trainingDays) == MathMin(100, MathRound(trainingDays * 80 + 2000, 100))

\* Math.round(trainingDays / 100 * 80 + 20)
Confidence(trainingDays) == MathRound(trainingDays * 80 + 2000, 100)

\* value.toFixed(2): the hundredths, rounded
ToFixed2(value) ==
    IF ~IsFinite(value) THEN [negative |-> value = NegInf, units |-> value]
    ELSE [ negative |-> value[1] < 0,
           units |-> <<(Abs(value[1]) + 5000) \div 10000, 100>> ]

\* trend.toFixed(3): the thousandths, rounded
ToFixed3(trend) ==
    IF trend = NaN THEN [negative |-> FALSE, units |-> NaN]
    ELSE [ negative |-> trend[1] < 0,
           units |-> << (2 * Abs(trend[1]) + 1000 * trend[2]) \div (2000 * trend[2]),
                        1000 >> ]

\* stats.narrative: the pieces of text in order, each with the numbers it shows
StatsNarrative(trainingDays, confidence, forecastMin, forecastMax, forecastTrend) ==
    << IF trainingDays <= 20 THEN <<"High uncertainty", confidence>>
       ELSE IF trainingDays <= 50 THEN <<"Balanced confidence", confidence>>
       ELSE <<"Strong confidence", confidence>>,
       <<"Forecast shows values between", ToFixed2(forecastMin), ToFixed2(forecastMax)>>,
       IF TrendNoticeable(forecastTrend)
       THEN << IF TrendPositive(forecastTrend) THEN "warming" ELSE "cooling",
               ToFixed3(forecastTrend) >>
       ELSE <<"The trend appears stable.">> >>

\* forecastData, from the steps of the forecast loop
ForecastData(steps) == [k \in 1..Len(steps) |-> ForecastPoint(steps[k])]

\* forecastData.map(d => d.value)
ForecastSlice(steps) == [k \in 1..Len(steps) |-> ForecastPoint(steps[k]).value]

\* stats, from the forecast points only
Stats(trainingDays, horizonDays, steps) ==
    [ min |-> MinOf(ForecastSlice(steps)),
      max |-> MaxOf(ForecastSlice(steps)),
      trend |-> ForecastTrend(ForecastSlice(steps), horizonDays),
      confidence |-> Confidence(trainingDays),
      narrative |-> StatsNarrative(trainingDays, Confidence(trainingDays),
                        MinOf(ForecastSlice(steps)), MaxOf(ForecastSlice(steps)),
                        ForecastTrend(ForecastSlice(steps), horizonDays)) ]

\* the ForecastResult generateSingleForecast returns
ForecastResult(variable, trainingDays, horizonDays, historicalData, steps) ==
    [ variable |-> variable,
      data |-> historicalData \o ForecastData(steps),
      stats |-> Stats(trainingDays, horizonDays, steps),
      range |-> <<Min(variable), Max(variable)>> ]

\* ---------------------------------------------- generateOverallNarrative

\* a search that keeps the last match
FindLast(results, variable) ==
    IF \E k \in 1..Len(results) : results[k].variable = variable
    THEN CHOOSE k \in 1..Len(results) :
            /\ results[k].variable = variable
            /\ \A j \in (k + 1)..Len(results) : results[j].variable # variable
    ELSE 0

\* results.find(r => r.variable === variable): the index of the first match
\* counted from 1, 0 when there is none
Find(results, variable) ==
    IF \E k \in 1..Len(results) : results[k].variable = variable
    THEN CHOOSE k \in 1..Len(results) :
            /\ results[k].variable = variable
            /\ \A j \in 1..(k - 1) : results[j].variable # variable
    ELSE 0

RECURSIVE SumConfidence(_)
\* results.reduce((acc, r) => acc + r.stats.confidence, 0)
SumConfidence(results) ==
    IF Len(results) = 0 THEN 0
    ELSE Head(results).stats.confidence + SumConfidence(Tail(results))

\* salinityResult && Math.abs(salinityResult.stats.trend) < 0.001
SalinityClause(results, salinityResult) ==
    salinityResult # 0 /\ TrendMinimal(results[salinityResult].stats.trend)

\* the narrative: the pieces of text in order, each with what it interpolates
generateOverallNarrative(results, params) ==
    << <<"preamble", params.horizon, NumberString(params.trainingDays)>> >>
    \o (IF Find(results, "temperature") # 0
        THEN << << "Temperature",
                   IF TrendPositive(results[Find(results, "temperature")].stats.trend)
                   THEN "gradual increase" ELSE "slight decrease" >> >>
        ELSE <<>>)
    \o (IF Find(results, "chlorophyll") # 0
        THEN << << "Chlorophyll",
                   IF TrendPositive(results[Find(results, "chlorophyll")].stats.trend)
                   THEN "modest rise" ELSE "slight decline" >> >>
        ELSE <<>>)
    \o (IF Find(results, "oxygen") # 0 THEN << <<"Oxygen">> >> ELSE <<>>)
    \o (IF SalinityClause(results, Find(results, "salinity"))
        THEN << <<"Salinity & pH">> >>
        ELSE <<>>)
    \o << << "Confidence",
             IF Len(results) = 0 THEN NaN
             ELSE Num(MathRound(SumConfidence(results), Len(results))) >> >>

\* -------------------------------------------------- generateAllForecasts

\* one seed for every variable
SeedWithoutIndex(params, index) == params.trainingDays

\* the seed of the run at index (from 0): params.trainingDays + index
SeedFor(params, index) == params.trainingDays + index

\* ------------------------------------------------------------ the inputs

MaxTrainingDays == 130
MaxSeed == 1
MaxHorizonLen == 3
MaxVariables == 2
MaxRepeatSeed == 2

\* every side of every branch on trainingDays (20, 30, 50, 100 and 120)
TrainingDays == {0, 1, 10, 20, 21, 30, 31, 60, 100, 120, 121, MaxTrainingDays}

Horizons ==
    { <<"1", "d">>, <<"7", "d">>, <<"1", "4", "d">>, <<"3", "1", "d">>,
      <<"0", "d">>, <<"-", "3", "d">>,
      <<"2", " ", "m", "o", "n", "t", "h", "s">>,
      <<"g", "a", "r", "b", "a", "g", "e">>,
      <<"b", "a", "d">> }

Seeds == 0..MaxSeed

RECURSIVE StringsUpTo(_, _)
\* the strings over an alphabet of at most n characters
StringsUpTo(alphabet, n) ==
    IF n = 0 THEN {<<>>}
    ELSE StringsUpTo(alphabet, n - 1)
         \cup {Append(str, c) : str \in StringsUpTo(alphabet, n - 1), c \in alphabet}

HorizonStrings == Horizons \cup StringsUpTo({"1", "4", "d", "-", "x", "0"}, MaxHorizonLen)

\* the inputs of the runs of generateAllForecasts
AllTrainingDays == {7, 40}
AllHorizons == {<<"1", "d">>, <<"7", "d">>, <<"b", "a", "d">>}
AllVariables == {"temperature", "salinity", "chlorophyll", "oxygen", "ph"}
VariableLists == UNION {[1..n -> AllVariables] : n \in 0..MaxVariables}

\* the inputs of the repeated calls of generateSingleForecast
RepeatVariables == {"temperature", "salinity"}
RepeatTrainingDays == {2, 35}
RepeatHorizons == {<<"3", "d">>}
RepeatSeeds == 0..MaxRepeatSeed

\* ------------------------------------------------------------ the state

VARIABLES
    pc,             \* where the program is: "ready" before the call, "forecast"
                    \* in the forecast loop of generateSingleForecast, "map" in
                    \* the map of generateAllForecasts, "returned" after the call
    call,           \* the call: the function and its arguments
    ret,            \* the value the call returned
    kept,           \* an earlier call and the value it returned, as the caller kept them
    index,          \* generateAllForecasts: the index of the map, from 0
    results,        \* generateAllForecasts: the results mapped so far
    single,         \* generateSingleForecast: its arguments variable, params, seed
    horizonDays,    \* generateSingleForecast: its locals
    historicalData,
    lastVal,
    trend,
    i,
    steps           \* the locals of the forecast loop's passes, in order

vars == << pc, call, ret, kept, index, results, single, a, horizonDays,
           historicalData, lastVal, trend, i, steps >>

locals == <<single, a, horizonDays, historicalData, lastVal, trend, i, steps>>

\* ------------------------------------------------------------ the calls

Params(trainingDays, horizon, variables) ==
    [trainingDays |-> trainingDays, horizon |-> horizon, variables |-> variables]

SingleCall(variable, params, seed) ==
    [op |-> "generateSingleForecast", variable |-> variable, params |-> params, seed |-> seed]

\* the program before call c, nothing run yet
Ready(c) ==
    /\ pc = "ready"
    /\ call = c
    /\ ret = <<>>
    /\ kept = <<>>
    /\ index = 0
    /\ results = <<>>
    /\ single = <<>>
    /\ a = <<0, 0>>
    /\ horizonDays = NaN
    /\ historicalData = <<>>
    /\ lastVal = 0
    /\ trend = 0
    /\ i = 0
    /\ steps = <<>>

\* getHorizonInDays is called and returns
GetHorizonInDays ==
    /\ pc = "ready"
    /\ call.op = "getHorizonInDays"
    /\ ret' = getHorizonInDays(call.horizon)
    /\ pc' = "returned"
    /\ UNCHANGED <<call, kept, index, results, locals>>

\* generateSingleForecast(variable, params, seed) from its entry to the forecast
\* loop: the generator, the horizon, the historical loop, lastVal and trend
Enter(variable, params, seed) ==
    /\ single' = [variable |-> variable, params |-> params, seed |-> seed]
    /\ horizonDays' = getHorizonInDays(params.horizon)
    /\ historicalData' =
            HistoricalLoop(variable, params.trainingDays, mulberry32(seed)).data
    /\ lastVal' = InitialLastVal(variable, historicalData')
    /\ trend' = IF params.trainingDays > 30
                THEN Trend(variable,
                        Random(HistoricalLoop(variable, params.trainingDays,
                                              mulberry32(seed)).g))
                ELSE 0
    /\ a' = IF params.trainingDays > 30
            THEN Advance(HistoricalLoop(variable, params.trainingDays, mulberry32(seed)).g)
            ELSE HistoricalLoop(variable, params.trainingDays, mulberry32(seed)).g
    /\ i' = 0
    /\ steps' = <<>>
    /\ pc' = "forecast"

\* the caller calls generateSingleForecast
SingleStart ==
    /\ pc = "ready"
    /\ call.op = "generateSingleForecast"
    /\ Enter(call.variable, call.params, call.seed)
    /\ UNCHANGED <<call, ret, kept, index, results>>

\* one pass of the forecast loop
ForecastIteration ==
    /\ pc = "forecast"
    /\ Lt(Num(i), horizonDays)
    /\ steps' = Append(steps,
                    ForecastStep(single.variable, single.params.trainingDays, i,
                                 historicalData, lastVal, trend, Random(a)))
    /\ lastVal' = steps'[Len(steps')].nextVal
    /\ a' = Advance(a)
    /\ i' = i + 1
    /\ UNCHANGED <<pc, call, ret, kept, index, results, single, horizonDays,
                   historicalData, trend>>

\* the forecast loop is over: generateSingleForecast returns its result, to the
\* caller or to the map of generateAllForecasts
SingleReturn ==
    /\ pc = "forecast"
    /\ ~Lt(Num(i), horizonDays)
    /\ IF call.op = "generateSingleForecast"
       THEN /\ ret' = ForecastResult(single.variable, single.params.trainingDays,
                                     horizonDays, historicalData, steps)
            /\ pc' = "returned"
            /\ UNCHANGED <<index, results>>
       ELSE /\ results' = Append(results,
                            ForecastResult(single.variable, single.params.trainingDays,
                                           horizonDays, historicalData, steps))
            /\ index' = index + 1
            /\ pc' = "map"
            /\ UNCHANGED ret
    /\ UNCHANGED <<call, kept, locals>>

\* the caller calls generateAllForecasts
AllStart ==
    /\ pc = "ready"
    /\ call.op = "generateAllForecasts"
    /\ index' = 0
    /\ results' = <<>>
    /\ pc' = "map"
    /\ UNCHANGED <<call, ret, kept, locals>>

\* the map calls generateSingleForecast for the variable at index
MapCall ==
    /\ pc = "map"
    /\ index < Len(call.params.variables)
    /\ Enter(call.params.variables[index + 1], call.params, SeedFor(call.params, index))
    /\ UNCHANGED <<call, ret, kept, index, results>>

\* the map is over: the narrative is built and generateAllForecasts returns
AllReturn ==
    /\ pc = "map"
    /\ ~(index < Len(call.params.variables))
    /\ ret' = [ params |-> call.params,
                results |-> results,
                narrative |-> generateOverallNarrative(results, call.params) ]
    /\ pc' = "returned"
    /\ UNCHANGED <<call, kept, index, results, locals>>

\* ------------------------------------ Spec: one call of generateSingleForecast

Init ==
    \E variable \in ForecastVariable, trainingDays \in TrainingDays,
       horizon \in Horizons, seed \in Seeds :
        Ready(SingleCall(variable, Params(trainingDays, horizon, <<variable>>), seed))

Next ==
    \/ SingleStart
    \/ ForecastIteration
    \/ SingleReturn

Spec == Init /\ [][Next]_vars

\* -------------------------------------- SpecHorizon: one call of getHorizonInDays

InitHorizon ==
    \E horizon \in HorizonStrings :
        Ready([op |-> "getHorizonInDays", horizon |-> horizon])

NextHorizon == GetHorizonInDays

SpecHorizon == InitHorizon /\ [][NextHorizon]_vars

\* ------ SpecAll: one call of generateAllForecasts, then one direct call of
\* generateSingleForecast for one of its variables with the seed of its index

\* the caller keeps what generateAllForecasts returned and calls
\* generateSingleForecast for the variable at index j (from 0)
DirectCall ==
    /\ pc = "returned"
    /\ call.op = "generateAllForecasts"
    /\ \E j \in 0..(Len(call.params.variables) - 1) :
        call' = [ op |-> "generateSingleForecast",
                  variable |-> call.params.variables[j + 1],
                  params |-> call.params,
                  seed |-> call.params.trainingDays + j,
                  j |-> j ]
    /\ kept' = <<[call |-> call, ret |-> ret]>>
    /\ ret' = <<>>
    /\ pc' = "ready"
    /\ UNCHANGED <<index, results, locals>>

InitAll ==
    \E trainingDays \in AllTrainingDays, horizon \in AllHorizons,
       variables \in VariableLists :
        Ready([ op |-> "generateAllForecasts",
                params |-> Params(trainingDays, horizon, variables) ])

NextAll ==
    \/ AllStart
    \/ MapCall
    \/ ForecastIteration
    \/ SingleReturn
    \/ AllReturn
    \/ DirectCall
    \/ SingleStart

SpecAll == InitAll /\ [][NextAll]_vars

\* ------ SpecRepeat: calls of generateSingleForecast one after the other

\* the caller keeps the call that returned and its value, or what it kept
\* before (noting whether a call with other arguments has returned since), and
\* makes the next call
Again ==
    /\ pc = "returned"
    /\ \E variable \in RepeatVariables, trainingDays \in RepeatTrainingDays,
          horizon \in RepeatHorizons, seed \in RepeatSeeds :
        call' = SingleCall(variable, Params(trainingDays, horizon, <<variable>>), seed)
    /\ \/ kept' = <<[call |-> call, ret |-> ret, between |-> FALSE]>>
       \/ /\ kept # <<>>
          /\ kept' = <<[kept[1] EXCEPT !.between = @ \/ call # kept[1].call]>>
       \/ /\ kept = <<>>
          /\ kept' = kept
    /\ ret' = <<>>
    /\ pc' = "ready"
    /\ UNCHANGED <<index, results, locals>>

InitRepeat ==
    \E variable \in RepeatVariables, trainingDays \in RepeatTrainingDays,
       horizon \in RepeatHorizons, seed \in RepeatSeeds :
        Ready(SingleCall(variable, Params(trainingDays, horizon, <<variable>>), seed))

NextRepeat ==
    \/ SingleStart
    \/ ForecastIteration
    \/ SingleReturn
    \/ Again

SpecRepeat == InitRepeat /\ [][NextRepeat]_vars

\* ------------------------------------------------------------ the claims

Returned == pc = "returned" /\ call.op = "generateSingleForecast"

InRange(variable, value) == Min(variable) <= value /\ value <= Max(variable)

ForecastIndices(data) == {k \in 1..Len(data) : data[k].type = "forecast"}

\* C1: every value generateSingleForecast produces, historical or forecast,
\* at every pass of the forecast loop and in the data it returns, lies in the
\* range of its variable.
C1_ValuesInRange ==
    /\ pc # "ready" =>
        /\ \A k \in 1..Len(historicalData) :
                InRange(single.variable, historicalData[k].value)
        /\ \A k \in 1..Len(steps) : InRange(single.variable, steps[k].nextVal)
        /\ pc = "forecast" => InRange(single.variable, lastVal)
    /\ Returned =>
        \A k \in 1..Len(ret.data) : InRange(call.variable, ret.data[k].value)

\* a returned forecast with historical points that the clamp held at the
\* upper end of the range
C1_Witness ==
    /\ Returned
    /\ \E k \in ForecastIndices(ret.data) : ret.data[k].value = Max(call.variable)
    /\ \E k \in 1..Len(ret.data) : ret.data[k].type = "historical"

\* C2: every forecast point has min <= lower <= value <= upper <= max, for
\* every trainingDays, those above 120 included.
C2_ConfidenceOrdered ==
    Returned =>
        \A k \in ForecastIndices(ret.data) :
            /\ Min(call.variable) <= ret.data[k].confidence[1]
            /\ ret.data[k].confidence[1] <= ret.data[k].value
            /\ ret.data[k].value <= ret.data[k].confidence[2]
            /\ ret.data[k].confidence[2] <= Max(call.variable)

\* C4: the data returned is trainingDays historical points labelled
\* D-<trainingDays> down to D-1, without confidence, then horizonDays forecast
\* points labelled D+1 up to D+<horizonDays>, with confidence, so that its
\* length is trainingDays + horizonDays, horizonDays being what the horizon
\* resolves to.
C4_DataLayout ==
    Returned =>
        LET trainingDays == call.params.trainingDays
            resolved == getHorizonInDays(call.params.horizon)
        IN  /\ Num(Len(ret.data)) = Add(Num(trainingDays), resolved)
            /\ \A k \in 1..Len(ret.data) :
                IF k <= trainingDays
                THEN /\ ret.data[k].type = "historical"
                     /\ ret.data[k].day = <<"D", "-">> \o NumberString(trainingDays - k + 1)
                     /\ DOMAIN ret.data[k] = {"day", "value", "type"}
                ELSE /\ ret.data[k].type = "forecast"
                     /\ ret.data[k].day = <<"D", "+">> \o NumberString(k - trainingDays)
                     /\ DOMAIN ret.data[k] = {"day", "value", "type", "confidence"}

\* C7: stats.min and stats.max are the least and the greatest value of the
\* forecast points, so they lie in the range of the variable, and stats.trend
\* is (last forecast value - first forecast value) / horizonDays, for every
\* resolved horizonDays.
C7_StatsOfForecast ==
    Returned =>
        LET forecast == ForecastIndices(ret.data)
            value(k) == Num(ret.data[k].value)
        IN  /\ Leq(Num(Min(call.variable)), ret.stats.min)
            /\ Leq(ret.stats.min, ret.stats.max)
            /\ Leq(ret.stats.max, Num(Max(call.variable)))
            /\ \A k \in forecast : Leq(ret.stats.min, value(k)) /\ Leq(value(k), ret.stats.max)
            /\ \E k \in forecast : ret.stats.min = value(k)
            /\ \E k \in forecast : ret.stats.max = value(k)
            /\ \E first \in forecast, last \in forecast :
                /\ \A k \in forecast : first <= k /\ k <= last
                /\ IsFinite(getHorizonInDays(call.params.horizon))
                /\ ret.stats.trend =
                        << ret.data[last].value - ret.data[first].value,
                           getHorizonInDays(call.params.horizon)[1] >>

\* C8: stats.confidence is the integer nearest to trainingDays / 100 * 80 + 20
\* whatever the variable, the horizon and the seed (28 for 10 days, 44 for 30,
\* 68 for 60, 100 for 100), no shorter training gives a greater confidence, and
\* above 100 days it exceeds 100.
C8_Confidence ==
    Returned =>
        LET trainingDays == call.params.trainingDays
            confidence == ret.stats.confidence
        IN  /\ 10 * confidence - 5 <= 8 * trainingDays + 200
            /\ 8 * trainingDays + 200 < 10 * confidence + 5
            /\ trainingDays = 10 => confidence = 28
            /\ trainingDays = 30 => confidence = 44
            /\ trainingDays = 60 => confidence = 68
            /\ trainingDays = 100 => confidence = 100
            /\ \A shorter \in 0..trainingDays : Confidence(shorter) <= confidence
            /\ trainingDays > 100 => confidence > 100

\* a forecast from more than 100 training days, its confidence above 100
C8_Witness ==
    /\ Returned
    /\ call.params.trainingDays > 100
    /\ ret.stats.confidence > 100

\* C10: with trainingDays <= 20, pass i of the forecast loop reads index
\* trainingDays - (30 - (i mod 30)) of the historical series, never an index
\* >= trainingDays, and its seasonal component is that point's value minus
\* lastVal when the index is in 0 .. trainingDays - 1 and 0 when it is not;
\* with trainingDays > 20 the historical series is not read.
C10_SeasonalLookup ==
    pc # "ready" =>
        \A k \in 1..Len(steps) :
            LET trainingDays == single.params.trainingDays
                at == trainingDays - (30 - (steps[k].i % 30))
            IN  IF trainingDays <= 20
                THEN /\ steps[k].reads = <<at>>
                     /\ at < trainingDays
                     /\ steps[k].seasonalVal =
                            IF at >= 0 /\ at < trainingDays
                            THEN historicalData[at + 1].value - steps[k].lastVal
                            ELSE 0
                ELSE steps[k].reads = <<>>

\* a run with at most 20 training days that has read inside the series, with a
\* seasonal component other than 0, and outside of it
C10_Witness ==
    /\ Returned
    /\ call.params.trainingDays <= 20
    /\ \E k \in 1..Len(steps) :
        /\ steps[k].reads[1] >= 0
        /\ steps[k].seasonalVal # 0
    /\ \E k \in 1..Len(steps) : steps[k].reads[1] < 0

\* C3: two calls of generateSingleForecast with the same arguments return the
\* same result, whatever calls with other arguments were made before or
\* between them.
C3_Deterministic ==
    (Returned /\ kept # <<>> /\ kept[1].call = call) => ret = kept[1].ret

\* a call repeated after a call with other arguments has returned
C3_Witness ==
    /\ Returned
    /\ kept # <<>>
    /\ kept[1].call = call
    /\ kept[1].between
    /\ Len(ret.data) > call.params.trainingDays

\* C5: getHorizonInDays returns a number for every string, never NaN: 30 for
\* a string that does not end in "d", and for instance 14 for "14d", 30 for
\* "2 months" and 30 for "garbage".
C5_HorizonResolves ==
    (pc = "returned" /\ call.op = "getHorizonInDays") =>
        /\ IsFinite(ret)
        /\ ~EndsWith(call.horizon, "d") => ret = Num(30)
        /\ call.horizon = <<"1", "4", "d">> => ret = Num(14)
        /\ call.horizon = <<"2", " ", "m", "o", "n", "t", "h", "s">> => ret = Num(30)
        /\ call.horizon = <<"g", "a", "r", "b", "a", "g", "e">> => ret = Num(30)

\* C6: generateAllForecasts returns one result per entry of params.variables,
\* in order, duplicates kept, and the result at index j is what
\* generateSingleForecast returns for that variable, params and seed
\* trainingDays + j.
C6_ResultsMatchDirectCalls ==
    /\ (pc = "returned" /\ call.op = "generateAllForecasts") =>
        /\ Len(ret.results) = Len(call.params.variables)
        /\ \A k \in 1..Len(ret.results) :
                ret.results[k].variable = call.params.variables[k]
    /\ (Returned /\ kept # <<>>) =>
        /\ call.seed = call.params.trainingDays + call.j
        /\ call.variable = kept[1].call.params.variables[call.j + 1]
        /\ call.params = kept[1].call.params
        /\ ret = kept[1].ret.results[call.j + 1]

\* a direct call for the second of two entries of the same variable, whose
\* result is not that of the first entry
C6_Witness ==
    /\ Returned
    /\ kept # <<>>
    /\ call.j = 1
    /\ call.params.variables[1] = call.params.variables[2]
    /\ ret = kept[1].ret.results[2]
    /\ ret # kept[1].ret.results[1]

Requested(variable) == \E k \in 1..Len(call.params.variables) : call.params.variables[k] = variable

\* the trend of the first result of the variable
FirstTrend(variable) ==
    ret.results[CHOOSE k \in 1..Len(ret.results) :
                    /\ ret.results[k].variable = variable
                    /\ \A j \in 1..(k - 1) : ret.results[j].variable # variable].stats.trend

Clauses(name) == {k \in 1..Len(ret.narrative) : ret.narrative[k][1] = name}

\* C9: the overall narrative has the temperature, the chlorophyll and the
\* oxygen clause exactly when the variable is requested, and the salinity
\* clause exactly when salinity is requested with |trend| < 0.001; no clause
\* appears twice, and the trend consulted is that of the variable's first
\* result.
C9_NarrativeClauses ==
    (pc = "returned" /\ call.op = "generateAllForecasts") =>
        /\ \A name \in {"Temperature", "Chlorophyll", "Oxygen", "Salinity & pH"} :
                Cardinality(Clauses(name)) <= 1
        /\ Clauses("Temperature") # {} <=> Requested("temperature")
        /\ Clauses("Chlorophyll") # {} <=> Requested("chlorophyll")
        /\ Clauses("Oxygen") # {} <=> Requested("oxygen")
        /\ Clauses("Salinity & pH") # {} <=>
                /\ Requested("salinity")
                /\ FirstTrend("salinity") # NaN
                /\ Abs(FirstTrend("salinity")[1]) < 1000 * FirstTrend("salinity")[2]
        /\ \A k \in Clauses("Temperature") :
                ret.narrative[k][2] = "gradual increase"
                    <=> (FirstTrend("temperature") # NaN /\ FirstTrend("temperature")[1] > 0)
        /\ \A k \in Clauses("Chlorophyll") :
                ret.narrative[k][2] = "modest rise"
                    <=> (FirstTrend("chlorophyll") # NaN /\ FirstTrend("chlorophyll")[1] > 0)

\* salinity requested twice, the clause written for the first result although
\* the trend of the second is not below 0.001
C9_Witness ==
    /\ pc = "returned"
    /\ call.op = "generateAllForecasts"
    /\ call.params.variables = <<"salinity", "salinity">>
    /\ Clauses("Salinity & pH") # {}
    /\ ret.results[2].stats.trend # NaN
    /\ Abs(ret.results[2].stats.trend[1]) >= 1000 * ret.results[2].stats.trend[2]

====
